---- MODULE Spec2Model ----
(***************************************************************************)
(* The SecureVault backend. Membership management: the /signup, /login,    *)
(* /add-member and /remove-member handlers (app/login.py, app/access.py,   *)
(* app/auth.py) over the memberships table. The document vault: /upload,   *)
(* /search and /chat (app/main.py, app/search.py, app/chat.py,             *)
(* app/pinecone_client.py) over the vector index.                          *)
(*                                                                         *)
(* Every handler runs on its own database session; each session.execute    *)
(* is one step on the shared table, so a handler that reads and then       *)
(* writes is two steps that other requests may interleave with.            *)
(***************************************************************************)
EXTENDS Naturals, FiniteSets, Sequences, TLC

(***************************************************************************)
(* Bounds of the model.                                                    *)
(***************************************************************************)
MaxInitRows == 2

UserIds == {"u1", "u2", "u3"}
Clients == {"k1", "k2"}

\* Target scopes of requests: the first one, and one that differs from it in
\* the project, in the team, and in the company only.
Scopes ==
    { <<"c1", "t1", "p1">>, <<"c1", "t1", "p2">>,
      <<"c1", "t2", "p1">>, <<"c2", "t1", "p1">> }

\* An absent (Python None) field of a principal. Request parameters are typed
\* str, so no scope component of a request ever equals it.
None == "None"

\* access.py: valid_roles
valid_roles == <<"owner", "admin", "manager", "member">>

Roles == {"owner", "admin", "manager", "member"}

\* Role strings a caller may send: the four valid ones and one that is not.
RoleInputs == Roles \cup {"guest"}

VARIABLES
    memberships,  \* the memberships table: a bag of rows (row -> copies)
    uniqueIndex,  \* whether the table rejects an insert of an existing key
    users,        \* the users table: user_ids that have signed up
    token,        \* per client: the JWT payload it holds, or NoToken
    pc,           \* per client: where its request in flight stands
    req,          \* per client: its request in flight, NoReq when idle
    last,         \* the response a handler has just returned and the server
                  \* has yet to send: to whom, to what request, and which
                  \* rows the request inserted or deleted; NoResp otherwise
    removedKeys,  \* history: the keys whose membership a remove_member deleted
    acceptedAdds, \* history: the accepted add_member requests, with their
                  \* actors, whose key no remove_member has deleted since
    vectors,      \* the vector index: the vectors of every namespace
    objects,      \* the S3 bucket: the keys of the files stored
    documents,    \* the documents table, each row with its audit row
    up,           \* per client: where the page loop of its upload stands
    gen,          \* the chunk_text generator of the page being chunked
    loop,         \* the page loop of an upload, followed chunk by chunk
    sessions      \* the database sessions opened and not closed: how many
                  \* (followed by SessionSpec, left alone by the others)

\* The history variables: written by the specification that records the
\* history (HistSpec), left alone by the others.
hist == <<removedKeys, acceptedAdds>>

\* The document vault: written by the upload handler, read by search and
\* chat, left alone by the handlers of access.py and login.py.
vault == <<vectors, objects, documents, up, gen, loop>>

vars == <<memberships, uniqueIndex, users, token, pc, req, last,
          removedKeys, acceptedAdds, vectors, objects, documents, up,
          gen, loop, sessions>>

----------------------------------------------------------------------------
(***************************************************************************)
(* The memberships table.                                                  *)
(***************************************************************************)
Row(u, s, r) ==
    [user_id |-> u, company_id |-> s[1], team_id |-> s[2],
     project_id |-> s[3], role |-> r]

Key(row) == <<row.user_id, row.company_id, row.team_id, row.project_id>>

\* The rows of table m, each once.
RowsOf(m) == DOMAIN m

\* The number of rows of m (with copies) that a predicate's set holds.
RECURSIVE CountIn(_, _)
CountIn(m, S) ==
    IF S = {} THEN 0
    ELSE LET x == CHOOSE y \in S : TRUE
         IN  m[x] + CountIn(m, S \ {x})

\* SELECT ... WHERE user_id = :u AND company_id = .. AND team_id = ..
\* AND project_id = ..
SelectByKey(m, u, c, t, p) ==
    { row \in RowsOf(m) : Key(row) = <<u, c, t, p>> }

\* SELECT 1 ... WHERE company_id = .. AND team_id = .. AND project_id = ..
\* AND role = 'owner'
SelectOwnerOfProject(m, c, t, p) ==
    { row \in RowsOf(m) :
        /\ row.company_id = c /\ row.team_id = t /\ row.project_id = p
        /\ row.role = "owner" }

\* The INSERT as it would be if the statement were executed twice.
InsertRow_twice(m, row) ==
    IF row \in DOMAIN m
    THEN [m EXCEPT ![row] = @ + 2]
    ELSE [x \in DOMAIN m \cup {row} |-> IF x = row THEN 2 ELSE m[x]]

\* The INSERT as it would be if the session were closed without a commit.
InsertRow_uncommitted(m, row) == m

\* INSERT INTO memberships ... : one more copy of the row.
InsertRow(m, row) ==
    IF row \in DOMAIN m
    THEN [m EXCEPT ![row] = @ + 1]
    ELSE [x \in DOMAIN m \cup {row} |-> IF x = row THEN 1 ELSE m[x]]

\* The DELETE as it would be with user_id left out of its WHERE clause.
DeleteByKey_without_user_id(m, u, c, t, p) ==
    [x \in { row \in DOMAIN m :
               <<row.company_id, row.team_id, row.project_id>> # <<c, t, p>> }
       |-> m[x]]

\* DELETE FROM memberships WHERE <key>: every row of that key goes.
DeleteByKey(m, u, c, t, p) ==
    [x \in { row \in DOMAIN m : Key(row) # <<u, c, t, p>> } |-> m[x]]

\* The table with each row of S once.
TableOf(S) == [x \in S |-> 1]

----------------------------------------------------------------------------
(***************************************************************************)
(* Principals (auth.py).                                                   *)
(***************************************************************************)
InList(x, list) == \E i \in DOMAIN list : list[i] = x

NoToken ==
    [user_id |-> None, company_id |-> None, team_id |-> None,
     project_id |-> None, roles |-> <<>>]

\* login.py: the payload login signs (its expiry is not modelled: a token is
\* used within its twelve hours).
Payload(u, c, t, p, role) ==
    [user_id |-> u, company_id |-> c, team_id |-> t, project_id |-> p,
     roles |-> <<role>>]

\* auth.py get_current_user: an owner payload yields a principal without
\* scope; any other payload carries its scope over.
get_current_user(payload) ==
    IF InList("owner", payload.roles)
    THEN [user_id |-> payload.user_id, company_id |-> None, team_id |-> None,
          project_id |-> None, roles |-> <<"owner">>]
    ELSE [user_id |-> payload.user_id, company_id |-> payload.company_id,
          team_id |-> payload.team_id, project_id |-> payload.project_id,
          roles |-> payload.roles]

----------------------------------------------------------------------------
(***************************************************************************)
(* access.py: the checks of the two handlers.                              *)
(*                                                                         *)
(* Outcomes are named after the rejection they stand for:                  *)
(*   ScopeViolation      403 "You can only manage members in your own      *)
(*                            project."                                    *)
(*   InvalidRole         400 "Invalid role. Allowed: ..."                  *)
(*   HierarchyViolation  403 "Owner can only add admins ...", "Admin can   *)
(*                            only add managers ...", "Manager can only    *)
(*                            add members.", "Only owner, admins, or       *)
(*                            managers can add/remove members.", "Owner    *)
(*                            can only remove admins." and so on           *)
(*   OwnerAlreadyExists  400 "There can only be one owner per project ..." *)
(*   DuplicateMembership 400 "This user is already a member of this        *)
(*                            project."                                    *)
(*   MembershipNotFound  404 "Membership not found for this user ..."      *)
(*   OwnerImmutable      403 "Owner cannot be removed. ..."                *)
(*   StoreError          500 an exception of session.execute that the      *)
(*                            handler does not catch                       *)
(*   Accepted            200 {"status": "ok", ...}                         *)
(***************************************************************************)

\* The scope check as it would be if it compared the company only.
ensure_same_scope_company_only(current, company_id, team_id, project_id) ==
    ~ (current.company_id # company_id)

\* The scope check as it would be without its comparison of the project.
ensure_same_scope_without_project(current, company_id, team_id, project_id) ==
    ~ ( \/ current.company_id # company_id
        \/ current.team_id # team_id )

\* ensure_same_scope: TRUE when it returns, FALSE when it raises the 403.
ensure_same_scope(current, company_id, team_id, project_id) ==
    ~ ( \/ current.company_id # company_id
        \/ current.team_id # team_id
        \/ current.project_id # project_id )

\* The chain as it would be with the admin branch naming the role above
\* the caller instead of the one below.
assigned_role_admin_assigns_owner(user_roles) ==
    IF InList("owner", user_roles) THEN "admin"
    ELSE IF InList("admin", user_roles) THEN "owner"
    ELSE IF InList("manager", user_roles) THEN "member"
    ELSE None

\* add_member, the if/elif chain over the caller's roles: the role the caller
\* may assign, None when the chain ends in its else branch.
assigned_role(user_roles) ==
    IF InList("owner", user_roles) THEN "admin"
    ELSE IF InList("admin", user_roles) THEN "manager"
    ELSE IF InList("manager", user_roles) THEN "member"
    ELSE None

\* add_member as it would be without the comparison of the requested role
\* with the role its caller may assign.
add_member_checks_nohierarchy(current, user_id, company_id, team_id, project_id, role, m) ==
    LET user_roles == current.roles IN
    IF ~ ensure_same_scope(current, company_id, team_id, project_id)
        THEN "ScopeViolation"
    ELSE IF ~ InList(role, valid_roles)
        THEN "InvalidRole"
    ELSE IF assigned_role(user_roles) = None
        THEN "HierarchyViolation"
    ELSE IF /\ InList("owner", user_roles)
            /\ SelectOwnerOfProject(m, company_id, team_id, project_id) # {}
        THEN "OwnerAlreadyExists"
    ELSE IF SelectByKey(m, user_id, company_id, team_id, project_id) # {}
        THEN "DuplicateMembership"
    ELSE "pass"

\* add_member as it would be without its duplicate query.
add_member_checks_nodup(current, user_id, company_id, team_id, project_id, role, m) ==
    LET user_roles == current.roles IN
    IF ~ ensure_same_scope(current, company_id, team_id, project_id)
        THEN "ScopeViolation"
    ELSE IF ~ InList(role, valid_roles)
        THEN "InvalidRole"
    ELSE IF assigned_role(user_roles) = None
        THEN "HierarchyViolation"
    ELSE IF role # assigned_role(user_roles)
        THEN "HierarchyViolation"
    ELSE IF /\ InList("owner", user_roles)
            /\ SelectOwnerOfProject(m, company_id, team_id, project_id) # {}
        THEN "OwnerAlreadyExists"
    ELSE "pass"

\* add_member as it would be with the test of the requested role ahead of
\* the scope check.
add_member_checks_role_first(current, user_id, company_id, team_id, project_id, role, m) ==
    LET user_roles == current.roles IN
    IF ~ InList(role, valid_roles)
        THEN "InvalidRole"
    ELSE IF ~ ensure_same_scope(current, company_id, team_id, project_id)
        THEN "ScopeViolation"
    ELSE IF assigned_role(user_roles) = None
        THEN "HierarchyViolation"
    ELSE IF role # assigned_role(user_roles)
        THEN "HierarchyViolation"
    ELSE IF /\ InList("owner", user_roles)
            /\ SelectOwnerOfProject(m, company_id, team_id, project_id) # {}
        THEN "OwnerAlreadyExists"
    ELSE IF SelectByKey(m, user_id, company_id, team_id, project_id) # {}
        THEN "DuplicateMembership"
    ELSE "pass"

\* add_member up to and including its duplicate query: the rejection it
\* raises, or "pass" when it goes on to the INSERT.
add_member_checks(current, user_id, company_id, team_id, project_id, role, m) ==
    LET user_roles == current.roles IN
    IF ~ ensure_same_scope(current, company_id, team_id, project_id)
        THEN "ScopeViolation"
    ELSE IF ~ InList(role, valid_roles)
        THEN "InvalidRole"
    ELSE IF assigned_role(user_roles) = None
        THEN "HierarchyViolation"
    ELSE IF role # assigned_role(user_roles)
        THEN "HierarchyViolation"
    ELSE IF /\ InList("owner", user_roles)
            /\ SelectOwnerOfProject(m, company_id, team_id, project_id) # {}
        THEN "OwnerAlreadyExists"
    ELSE IF SelectByKey(m, user_id, company_id, team_id, project_id) # {}
        THEN "DuplicateMembership"
    ELSE "pass"

\* The removal chain as it would be with the manager branch missing.
may_remove_without_manager_branch(user_roles, target_role) ==
    IF InList("owner", user_roles) THEN target_role = "admin"
    ELSE IF InList("admin", user_roles) THEN target_role = "manager"
    ELSE TRUE

\* remove_member, the role chain applied to the role read from the target row.
may_remove(user_roles, target_role) ==
    IF InList("owner", user_roles) THEN target_role = "admin"
    ELSE IF InList("admin", user_roles) THEN target_role = "manager"
    ELSE IF InList("manager", user_roles) THEN target_role = "member"
    ELSE TRUE

\* remove_member as it would be with the checks on the fetched row ahead of
\* the checks on the caller.
remove_member_checks_target_first(current, company_id, team_id, project_id, target) ==
    LET user_roles == current.roles IN
    IF target = {}
        THEN "MembershipNotFound"
    ELSE LET target_role == (CHOOSE row \in target : TRUE).role IN
         IF target_role = "owner" THEN "OwnerImmutable"
         ELSE IF ~ ensure_same_scope(current, company_id, team_id, project_id)
             THEN "ScopeViolation"
         ELSE IF /\ ~ InList("owner", user_roles)
                 /\ ~ InList("admin", user_roles)
                 /\ ~ InList("manager", user_roles)
             THEN "HierarchyViolation"
         ELSE IF ~ may_remove(user_roles, target_role) THEN "HierarchyViolation"
         ELSE "pass"

\* remove_member up to its DELETE, given the row its SELECT fetched (target is
\* a set: empty when fetchone() returned nothing, else the one row fetched).
remove_member_checks(current, company_id, team_id, project_id, target) ==
    LET user_roles == current.roles IN
    IF ~ ensure_same_scope(current, company_id, team_id, project_id)
        THEN "ScopeViolation"
    ELSE IF /\ ~ InList("owner", user_roles)
            /\ ~ InList("admin", user_roles)
            /\ ~ InList("manager", user_roles)
        THEN "HierarchyViolation"
    ELSE IF target = {}
        THEN "MembershipNotFound"
    ELSE LET target_role == (CHOOSE row \in target : TRUE).role IN
         IF target_role = "owner" THEN "OwnerImmutable"
         ELSE IF ~ may_remove(user_roles, target_role) THEN "HierarchyViolation"
         ELSE "pass"

----------------------------------------------------------------------------
(***************************************************************************)
(* Requests and responses.                                                 *)
(***************************************************************************)
NoReq ==
    [op |-> "none", user_id |-> None, company_id |-> None, team_id |-> None,
     project_id |-> None, role |-> None, local |-> None]

\* A request: its parameters, and in local what the handler keeps between its
\* query and its write (add_member: assigned_role; remove_member: target_role).
Request(op, u, s, role, local) ==
    [op |-> op, user_id |-> u, company_id |-> s[1], team_id |-> s[2],
     project_id |-> s[3], role |-> role, local |-> local]

NoScope == <<None, None, None>>

\* The response to request r of client k, with the rows of the table that the
\* request inserted or deleted.
Response(k, r, result, rows) ==
    [client |-> k, req |-> r, result |-> result, rows |-> rows]

NoResp == Response(None, NoReq, "none", {})

\* The locals of upload_pdf between its steps: the file, the pages still to
\* read, and the counters of the page loop. NoUpload when no upload runs.
NoUpload ==
    [filename |-> None, pages |-> <<>>, page_num |-> 0, page_count |-> 0,
     total_chunks |-> 0, s3_key |-> None]

\* A text, as far as chunking and the blank tests of upload_pdf look into it:
\* so many characters that are not whitespace, then so many of whitespace.
Text(letters, spaces) == [letters |-> letters, spaces |-> spaces]

\* The locals of a chunk_text generator (text, chunk_size, overlap, start,
\* end), where it stands (created, suspended at its yield, returned) and the
\* chunk it yielded last. NoGen when no text is being chunked.
NoGen ==
    [text |-> Text(0, 0), chunk_size |-> 0, overlap |-> 0, start |-> 0,
     end |-> 0, at |-> "none", out |-> Text(0, 0)]

\* The locals of upload_pdf's page loop followed chunk by chunk (page_num,
\* page_count, len(batch), total_chunks), the overlap it chunks with, and
\* where it stands. NoLoop when no loop is followed.
NoLoop ==
    [at |-> "none", overlap |-> 0, page_num |-> 0, page_count |-> 0,
     batch |-> 0, total_chunks |-> 0]

\* Nothing has been uploaded yet.
VaultEmpty ==
    /\ vectors = {}
    /\ objects = {}
    /\ documents = {}
    /\ up = [k \in Clients |-> NoUpload]
    /\ gen = NoGen
    /\ loop = NoLoop

InFlight(k) == pc[k] # "idle"

\* A handler step is taken when no response waits to be sent (see Next).
\* SendResponse changes nothing but last, so this orders the responses and
\* removes no behaviour of the tables, the tokens or the requests in flight.
Ready == last = NoResp

\* The server sends the response.
SendResponse ==
    /\ last # NoResp
    /\ last' = NoResp
    /\ UNCHANGED <<memberships, uniqueIndex, users, token, pc, req>>

----------------------------------------------------------------------------
(***************************************************************************)
(* The initial state: a seeded database. The tables were filled outside    *)
(* the handlers, with no key twice and at most one owner; two of the users *)
(* have accounts, the third has yet to sign up. Nobody has logged in yet.  *)
(*                                                                         *)
(* The seeds are the memberships of one project. The handlers treat all    *)
(* user_ids alike, so the seeds name the users in one order and list their *)
(* roles from the highest down: every other seeding of that project is a   *)
(* renaming of one of these.                                               *)
(***************************************************************************)
SeedScope == <<"c1", "t1", "p1">>

UserOrder == <<"u1", "u2", "u3">>

Rank(role) ==
    CASE role = "owner" -> 4
      [] role = "admin" -> 3
      [] role = "manager" -> 2
      [] role = "member" -> 1

NoDuplicateKeyIn(S) == \A a, b \in S : Key(a) = Key(b) => a = b

OwnersIn(S) == { row \in S : row.role = "owner" }

SeedUsers == {"u1", "u2"}

SeedSizes == { n \in 0..MaxInitRows : n <= Len(UserOrder) }

SeedRoles(n) ==
    { f \in [1..n -> Roles] :
        /\ \A i, j \in 1..n : i < j => Rank(f[i]) >= Rank(f[j])
        /\ Cardinality({ i \in 1..n : f[i] = "owner" }) <= 1 }

SeedStores ==
    UNION { { { Row(UserOrder[i], SeedScope, f[i]) : i \in 1..n } :
              f \in SeedRoles(n) } : n \in SeedSizes }

Init ==
    /\ \E S \in SeedStores : memberships = TableOf(S)
    /\ users = SeedUsers
    /\ uniqueIndex \in BOOLEAN
    /\ token = [k \in Clients |-> NoToken]
    /\ pc = [k \in Clients |-> "idle"]
    /\ req = [k \in Clients |-> NoReq]
    /\ last = NoResp
    /\ removedKeys = {}
    /\ acceptedAdds = {}
    /\ VaultEmpty
    /\ sessions = 0

----------------------------------------------------------------------------
(***************************************************************************)
(* login.py                                                                *)
(***************************************************************************)

\* signup: a new account, unless the user_id (and its email) is taken.
Signup(k, u) ==
    /\ pc[k] = "idle"
    /\ LET r == Request("signup", u, NoScope, None, None) IN
       IF u \in users
       THEN /\ last' = Response(k, r, "UserExists", {})
            /\ users' = users
       ELSE /\ last' = Response(k, r, "Accepted", {})
            /\ users' = users \cup {u}
    /\ UNCHANGED <<memberships, uniqueIndex, token, pc, req>>

\* login as it would be with project_id left out of its membership query.
Login_without_project(k, u, s, passwordOk) ==
    /\ pc[k] = "idle"
    /\ LET r == Request("login", u, s, None, None)
           membership == { row \in RowsOf(memberships) :
                             /\ row.user_id = u
                             /\ row.company_id = s[1]
                             /\ row.team_id = s[2] }
       IN  IF u \notin users \/ ~ passwordOk
           THEN /\ last' = Response(k, r, "InvalidCredentials", {})
                /\ token' = token
           ELSE IF membership = {}
           THEN /\ last' = Response(k, r, "NoAccess", {})
                /\ token' = token
           ELSE \E row \in membership :
                /\ last' = Response(k, r, "Accepted", {})
                /\ token' = [token EXCEPT ![k] =
                               Payload(u, s[1], s[2], s[3], row.role)]
    /\ UNCHANGED <<memberships, uniqueIndex, users, pc, req>>

\* login: the account's email and password (passwordOk: the caller knows the
\* password), then the membership at the requested scope; the token carries
\* the role of the row fetched.
Login(k, u, s, passwordOk) ==
    /\ pc[k] = "idle"
    /\ LET r == Request("login", u, s, None, None)
           membership == SelectByKey(memberships, u, s[1], s[2], s[3])
       IN  IF u \notin users \/ ~ passwordOk
           THEN /\ last' = Response(k, r, "InvalidCredentials", {})
                /\ token' = token
           ELSE IF membership = {}
           THEN /\ last' = Response(k, r, "NoAccess", {})
                /\ token' = token
           ELSE \E row \in membership :
                /\ last' = Response(k, r, "Accepted", {})
                /\ token' = [token EXCEPT ![k] =
                               Payload(u, s[1], s[2], s[3], row.role)]
    /\ UNCHANGED <<memberships, uniqueIndex, users, pc, req>>

----------------------------------------------------------------------------
(***************************************************************************)
(* access.py: add_member                                                   *)
(***************************************************************************)

\* add_member with its INSERT issued ahead of the duplicate query.
AddMemberCheck_insert_first(k, u, s, role) ==
    /\ pc[k] = "idle"
    /\ token[k] # NoToken
    /\ LET current == get_current_user(token[k])
           outcome == add_member_checks(current, u, s[1], s[2], s[3], role,
                                        memberships)
       IN  IF outcome = "pass"
           THEN /\ pc' = [pc EXCEPT ![k] = "add_insert"]
                /\ req' = [req EXCEPT ![k] =
                             Request("add", u, s, role,
                                     assigned_role(current.roles))]
                /\ last' = last
                /\ memberships' = memberships
           ELSE /\ pc' = pc
                /\ req' = req
                /\ last' = Response(k, Request("add", u, s, role, None),
                                    outcome, {})
                /\ memberships' =
                       IF outcome = "DuplicateMembership"
                       THEN InsertRow(memberships,
                                      Row(u, s, assigned_role(current.roles)))
                       ELSE memberships
    /\ UNCHANGED <<uniqueIndex, users, token>>

\* add_member from its start through its duplicate query.
AddMemberCheck(k, u, s, role) ==
    /\ pc[k] = "idle"
    /\ token[k] # NoToken
    /\ LET current == get_current_user(token[k])
           outcome == add_member_checks(current, u, s[1], s[2], s[3], role,
                                        memberships)
       IN  IF outcome = "pass"
           THEN /\ pc' = [pc EXCEPT ![k] = "add_insert"]
                /\ req' = [req EXCEPT ![k] =
                             Request("add", u, s, role,
                                     assigned_role(current.roles))]
                /\ last' = last
           ELSE /\ pc' = pc
                /\ req' = req
                /\ last' = Response(k, Request("add", u, s, role, None),
                                    outcome, {})
    /\ UNCHANGED <<memberships, uniqueIndex, users, token>>

\* add_member: its INSERT, commit and return. With the unique index the
\* INSERT of an existing key raises, and add_member does not catch it.
AddMemberInsert(k) ==
    /\ pc[k] = "add_insert"
    /\ LET r == req[k]
           row == Row(r.user_id, <<r.company_id, r.team_id, r.project_id>>,
                      r.local)
       IN  IF /\ uniqueIndex
              /\ SelectByKey(memberships, r.user_id, r.company_id, r.team_id,
                             r.project_id) # {}
           THEN /\ memberships' = memberships
                /\ last' = Response(k, r, "StoreError", {})
           ELSE /\ memberships' = InsertRow(memberships, row)
                /\ last' = Response(k, r, "Accepted", {row})
    /\ pc' = [pc EXCEPT ![k] = "idle"]
    /\ req' = [req EXCEPT ![k] = NoReq]
    /\ UNCHANGED <<uniqueIndex, users, token>>

----------------------------------------------------------------------------
(***************************************************************************)
(* access.py: remove_member                                                *)
(***************************************************************************)

\* What fetchone() may return for the key: nothing, or any one matching row.
Fetched(m, u, c, t, p) ==
    IF SelectByKey(m, u, c, t, p) = {} THEN { {} }
    ELSE { {row} : row \in SelectByKey(m, u, c, t, p) }

\* remove_member from its start through the checks on the row it fetched.
RemoveMemberCheck(k, u, s) ==
    /\ pc[k] = "idle"
    /\ token[k] # NoToken
    /\ \E target \in Fetched(memberships, u, s[1], s[2], s[3]) :
       LET current == get_current_user(token[k])
           outcome == remove_member_checks(current, s[1], s[2], s[3], target)
       IN  IF outcome = "pass"
           THEN /\ pc' = [pc EXCEPT ![k] = "rm_delete"]
                /\ req' = [req EXCEPT ![k] =
                             Request("remove", u, s, None,
                                     (CHOOSE row \in target : TRUE).role)]
                /\ last' = last
           ELSE /\ pc' = pc
                /\ req' = req
                /\ last' = Response(k, Request("remove", u, s, None, None),
                                    outcome, {})
    /\ UNCHANGED <<memberships, uniqueIndex, users, token>>

\* remove_member: its DELETE, commit and return.
RemoveMemberDelete(k) ==
    /\ pc[k] = "rm_delete"
    /\ LET r == req[k] IN
       /\ memberships' = DeleteByKey(memberships, r.user_id, r.company_id,
                                     r.team_id, r.project_id)
       /\ last' = Response(k, r, "Accepted",
                           SelectByKey(memberships, r.user_id, r.company_id,
                                       r.team_id, r.project_id))
    /\ pc' = [pc EXCEPT ![k] = "idle"]
    /\ req' = [req EXCEPT ![k] = NoReq]
    /\ UNCHANGED <<uniqueIndex, users, token>>

----------------------------------------------------------------------------
(***************************************************************************)
(* Specifications.                                                         *)
(***************************************************************************)

\* The clients whose handler may take a step: every client, once the
\* response that waits has been sent.
Servable == IF Ready THEN Clients ELSE {}

\* Requests of the clients interleave freely.
Next ==
    \/ \E k \in Servable, u \in UserIds : Signup(k, u) /\ UNCHANGED <<hist, vault, sessions>>
    \/ \E k \in Servable, u \in UserIds, s \in Scopes, passwordOk \in BOOLEAN :
           Login(k, u, s, passwordOk) /\ UNCHANGED <<hist, vault, sessions>>
    \/ \E k \in Servable, u \in UserIds, s \in Scopes, role \in RoleInputs :
           AddMemberCheck(k, u, s, role) /\ UNCHANGED <<hist, vault, sessions>>
    \/ \E k \in Servable : AddMemberInsert(k) /\ UNCHANGED <<hist, vault, sessions>>
    \/ \E k \in Servable, u \in UserIds, s \in Scopes :
           RemoveMemberCheck(k, u, s) /\ UNCHANGED <<hist, vault, sessions>>
    \/ \E k \in Servable : RemoveMemberDelete(k) /\ UNCHANGED <<hist, vault, sessions>>
    \/ SendResponse /\ UNCHANGED <<hist, vault, sessions>>

Spec == Init /\ [][Next]_vars

\* Requests run one at a time: a request starts only when none is in flight.
NoneInFlight == \A k \in Clients : ~ InFlight(k)

\* The clients that may send a request when requests run one at a time.
SeqStartable == IF NoneInFlight THEN Servable ELSE {}

SeqNext ==
    \/ \E k \in SeqStartable, u \in UserIds : Signup(k, u) /\ UNCHANGED <<hist, vault, sessions>>
    \/ \E k \in SeqStartable, u \in UserIds, s \in Scopes,
          passwordOk \in BOOLEAN :
           Login(k, u, s, passwordOk) /\ UNCHANGED <<hist, vault, sessions>>
    \/ \E k \in SeqStartable, u \in UserIds, s \in Scopes,
          role \in RoleInputs :
           AddMemberCheck(k, u, s, role) /\ UNCHANGED <<hist, vault, sessions>>
    \/ \E k \in Servable : AddMemberInsert(k) /\ UNCHANGED <<hist, vault, sessions>>
    \/ \E k \in SeqStartable, u \in UserIds, s \in Scopes :
           RemoveMemberCheck(k, u, s) /\ UNCHANGED <<hist, vault, sessions>>
    \/ \E k \in Servable : RemoveMemberDelete(k) /\ UNCHANGED <<hist, vault, sessions>>
    \/ SendResponse /\ UNCHANGED <<hist, vault, sessions>>

SeqSpec == Init /\ [][SeqNext]_vars

----------------------------------------------------------------------------
(***************************************************************************)
(* Vocabulary of the properties.                                           *)
(***************************************************************************)

\* The chain Owner -> Admin -> Manager -> Member: the immediate child of each
\* role that has one.
ChildOf == [r \in {"owner", "admin", "manager"} |->
              CASE r = "owner" -> "admin"
                [] r = "admin" -> "manager"
                [] r = "manager" -> "member"]

HasChild(r) == r \in DOMAIN ChildOf

\* The number of rows of the table with the key (u, c, t, p), copies counted.
RowsOfKey(m, u, c, t, p) == CountIn(m, SelectByKey(m, u, c, t, p))

\* The response waiting to be sent answers an add-member / a remove-member.
LastIsAdd == last.req.op = "add"
LastIsRemove == last.req.op = "remove"
LastIsManage == LastIsAdd \/ LastIsRemove

\* The principal of the request that last answers. A client neither logs in
\* nor starts a request before the response is sent, so its token is the one
\* the request came with.
LastActor == get_current_user(token[last.client])

LastTargetScope == <<last.req.company_id, last.req.team_id, last.req.project_id>>

ScopeOf(principal) ==
    <<principal.company_id, principal.team_id, principal.project_id>>

\* Client k takes the step that ends its add-member / remove-member.
InsertStep(k) == pc[k] = "add_insert" /\ pc'[k] = "idle"
DeleteStep(k) == pc[k] = "rm_delete" /\ pc'[k] = "idle"

----------------------------------------------------------------------------
(***************************************************************************)
(* Properties of the memberships table.                                    *)
(***************************************************************************)

\* C1 (I2, uniqueness): when requests run one at a time, no two rows of the
\* memberships table share the same (user_id, company_id, team_id,
\* project_id), whether or not the table has a unique index.
C1_Uniqueness ==
    \A row \in RowsOf(memberships) :
        RowsOfKey(memberships, row.user_id, row.company_id, row.team_id,
                  row.project_id) = 1

\* C1: an add-member was accepted, and the table holds the row it inserted
\* beside the rows it held before.
C1_Witness ==
    /\ LastIsAdd
    /\ last.result = "Accepted"
    /\ Cardinality(RowsOf(memberships)) >= 2
    /\ last.rows \subseteq RowsOf(memberships)


\* C2 (scenario F): on a table with the unique index, an add-member that has
\* passed its scope, hierarchy and duplicate checks and then finds, at its
\* INSERT, the key inserted by a concurrent add-member for the same (user,
\* scope) returns DuplicateMembership; one that finds the key still absent
\* returns Accepted; either way the table then holds exactly one row of the
\* key. So of two concurrent requests one is Accepted and the other is
\* rejected as a duplicate, with no other error outcome.
C2_ConcurrentAdd ==
    [][ \A k \in Clients :
          (uniqueIndex /\ InsertStep(k)) =>
            LET r == req[k]
                present == SelectByKey(memberships, r.user_id, r.company_id,
                                       r.team_id, r.project_id) # {}
            IN  /\ present => last'.result = "DuplicateMembership"
                /\ ~ present => last'.result = "Accepted"
                /\ RowsOfKey(memberships', r.user_id, r.company_id,
                             r.team_id, r.project_id) = 1 ]_vars


\* The number of owner rows of the table, copies counted.
OwnerCount == CountIn(memberships, OwnersIn(RowsOf(memberships)))

\* C3 (I1, single owner): no add-member, whatever role it asks for, is
\* answered by creating an owner row: a request with role 'owner' is never
\* accepted, no accepted request inserts an owner row, and the table never
\* holds more than the one owner it was seeded with.
C3_SingleOwner ==
    /\ OwnerCount <= 1
    /\ LastIsAdd /\ last.req.role = "owner" => last.result # "Accepted"
    /\ LastIsAdd => \A row \in last.rows : row.role # "owner"

\* C3: a caller within its scope asked add-member for role 'owner' while the
\* table held an owner, and was turned down on the hierarchy check.
C3_Witness ==
    /\ LastIsAdd
    /\ last.req.role = "owner"
    /\ last.result = "HierarchyViolation"
    /\ HasChild(LastActor.roles[1])
    /\ OwnerCount = 1

\* C4 (I4, owner immutability): under any interleaving no step deletes an
\* owner row, and a remove-member never gets past its checks to its DELETE
\* when the row it fetched for the target is an owner row.
C4_OwnerImmutable ==
    [][ /\ \A row \in OwnersIn(RowsOf(memberships)) :
              /\ row \in RowsOf(memberships')
              /\ memberships'[row] = memberships[row]
        /\ \A k \in Clients :
              (pc[k] = "idle" /\ pc'[k] = "rm_delete") =>
                /\ req'[k].local # "owner"
                /\ OwnersIn(SelectByKey(memberships, req'[k].user_id,
                                        req'[k].company_id, req'[k].team_id,
                                        req'[k].project_id)) = {} ]_vars

\* C4: a manager, within its scope, asked to remove the owner of its project
\* and was rejected as OwnerImmutable; the owner row is still there.
C4_Witness ==
    /\ LastIsRemove
    /\ last.result = "OwnerImmutable"
    /\ OwnersIn(SelectByKey(memberships, last.req.user_id, last.req.company_id,
                            last.req.team_id, last.req.project_id)) # {}

\* The roles that pass add_member's hierarchy branch for a caller whose only
\* role is r.
AssignableBy(r) ==
    { x \in RoleInputs :
        /\ InList(x, valid_roles)
        /\ assigned_role(<<r>>) # None
        /\ x = assigned_role(<<r>>) }

\* C5 (assignment edges): an add-member is accepted only if the requested
\* role is the immediate child of the caller's role, and the row inserted is
\* the target key with that child role; a caller whose role is member, or who
\* has no role, gets nothing accepted. The hierarchy branch lets each of
\* owner, admin and manager assign exactly its child, and member nothing.
C5_AssignmentEdges ==
    /\ (LastIsAdd /\ last.result = "Accepted") =>
         /\ Len(LastActor.roles) = 1
         /\ HasChild(LastActor.roles[1])
         /\ last.req.role = ChildOf[LastActor.roles[1]]
         /\ last.rows = { Row(last.req.user_id, LastTargetScope,
                              ChildOf[LastActor.roles[1]]) }
         /\ last.rows \subseteq RowsOf(memberships)
    /\ \A r \in DOMAIN ChildOf : AssignableBy(r) = { ChildOf[r] }
    /\ AssignableBy("member") = {}

\* C5: a manager's add-member for role member was accepted.
C5_Witness ==
    /\ LastIsAdd
    /\ last.result = "Accepted"
    /\ LastActor.roles = <<"manager">>
    /\ last.req.role = "member"

\* C6 (removal edges): when requests run one at a time, a remove-member is
\* accepted only if the caller's role has a child and the row it deleted, the
\* one row of the target key, has that child role; so a member or a caller
\* without a role removes nobody, and nobody removes an owner.
C6_RemovalEdges ==
    (LastIsRemove /\ last.result = "Accepted") =>
        /\ Len(LastActor.roles) = 1
        /\ HasChild(LastActor.roles[1])
        /\ last.rows = { Row(last.req.user_id, LastTargetScope,
                             ChildOf[LastActor.roles[1]]) }
        /\ SelectByKey(memberships, last.req.user_id, last.req.company_id,
                       last.req.team_id, last.req.project_id) = {}

\* C6: a manager's remove-member of a member was accepted.
C6_Witness ==
    /\ LastIsRemove
    /\ last.result = "Accepted"
    /\ LastActor.roles = <<"manager">>
    /\ \E row \in last.rows : row.role = "member"


----------------------------------------------------------------------------
(***************************************************************************)
(* Properties of the scope check.                                          *)
(*                                                                         *)
(* ensure_same_scope is the first check of both handlers, so a request     *)
(* passes it exactly when its response is not ScopeViolation.              *)
(***************************************************************************)
LastPassedScope == last.result # "ScopeViolation"

\* C7 (owner authority is global): an add-member or remove-member of an
\* authenticated owner, whose principal carries no company, team or project,
\* is never rejected with a scope violation, whatever scope it targets.
C7_OwnerGlobal ==
    (LastIsManage /\ InList("owner", LastActor.roles)) => LastPassedScope

\* C8 as claimed (admin authority is company-wide): a request of an admin of
\* company C passes the scope check exactly when the target's company_id is
\* C, whatever the target's team_id and project_id are.
C8_AdminCompanyWide ==
    (LastIsManage /\ LastActor.roles = <<"admin">>) =>
        (LastPassedScope <=> last.req.company_id = LastActor.company_id)

\* C8 as amended (admin authority is project-exact): a request of an admin
\* passes the scope check exactly when the target's company_id, team_id and
\* project_id all equal the admin's; so it fails for every target of another
\* company, and also for another team or project of the admin's own company.
C8_AdminExact ==
    (LastIsManage /\ LastActor.roles = <<"admin">>) =>
        /\ LastPassedScope <=> LastTargetScope = ScopeOf(LastActor)
        /\ last.req.company_id # LastActor.company_id => ~ LastPassedScope

\* C8: an admin's request for another team of its own company was rejected
\* with a scope violation.
C8_Witness ==
    /\ LastIsManage
    /\ LastActor.roles = <<"admin">>
    /\ last.req.company_id = LastActor.company_id
    /\ last.req.team_id # LastActor.team_id
    /\ ~ LastPassedScope

\* C9 (manager and member authority is exact): a request of a manager or of
\* a member passes the scope check if and only if the caller's company_id,
\* team_id and project_id equal the target's, each to each.
C9_ManagerMemberExact ==
    (LastIsManage /\ LastActor.roles \in { <<"manager">>, <<"member">> }) =>
        ( LastPassedScope <=>
            /\ LastActor.company_id = last.req.company_id
            /\ LastActor.team_id = last.req.team_id
            /\ LastActor.project_id = last.req.project_id )

\* C9: a manager's remove-member for another project of its own team was
\* rejected with a scope violation.
C9_Witness ==
    /\ LastIsRemove
    /\ LastActor.roles = <<"manager">>
    /\ last.req.company_id = LastActor.company_id
    /\ last.req.team_id = LastActor.team_id
    /\ last.req.project_id # LastActor.project_id
    /\ ~ LastPassedScope

\* C10 (scenario A): an owner's add-member with role admin is accepted and
\* inserts an admin row for the target at the target scope, whatever that
\* scope is; it is turned down only when the target already has a membership
\* at that scope.
C10_OwnerAddsAdmin ==
    (LastIsAdd /\ InList("owner", LastActor.roles) /\ last.req.role = "admin") =>
        \/ /\ last.result = "Accepted"
           /\ last.rows = { Row(last.req.user_id, LastTargetScope, "admin") }
           /\ last.rows \subseteq RowsOf(memberships)
        \/ /\ last.result # "Accepted"
           /\ SelectByKey(memberships, last.req.user_id, last.req.company_id,
                          last.req.team_id, last.req.project_id) # {}

\* A database seeded with a second project as well: besides the memberships
\* of the seeded project, a user of it owns another project of the company.
OtherProject == <<"c1", "t1", "p2">>

TwoProjectInit ==
    /\ \E S \in SeedStores :
          memberships = TableOf(S \cup {Row(UserOrder[2], OtherProject, "owner")})
    /\ users = SeedUsers
    /\ uniqueIndex \in BOOLEAN
    /\ token = [k \in Clients |-> NoToken]
    /\ pc = [k \in Clients |-> "idle"]
    /\ req = [k \in Clients |-> NoReq]
    /\ last = NoResp
    /\ removedKeys = {}
    /\ acceptedAdds = {}
    /\ VaultEmpty
    /\ sessions = 0

TwoProjectSpec == TwoProjectInit /\ [][Next]_vars

----------------------------------------------------------------------------
(***************************************************************************)
(* The document vault: main.py (upload), search.py, chat.py,               *)
(* pinecone_client.py.                                                     *)
(*                                                                         *)
(* A document is its filename and, page by page, the number of chunks      *)
(* with text that the chunk loop has taken from chunk_text for the page    *)
(* when it ends (0: a page that upload skips as empty); the loop itself,   *)
(* chunk by chunk, is followed further below. An embedding is not looked   *)
(* into: which vectors a query ranks highest is any choice of top_k of the *)
(* namespace.                                                              *)
(***************************************************************************)
MaxPages == 1
MaxUploads == 2

MAX_CHUNKS == 100
BATCH == 4
top_k == 5

Filenames == {"a.pdf"}

\* Chunks on a page: none, fewer than a batch, a batch and a leftover.
PageShapes == {0, 1, 5}

Documents ==
    { [filename |-> f, pages |-> pages] :
        f \in Filenames,
        pages \in UNION { [1..n -> PageShapes] : n \in 1..MaxPages } }

\* str(n): the decimal digits of n.
RECURSIVE str(_)
str(n) == IF n < 10 THEN <<n>> ELSE str(n \div 10) \o <<n % 10>>

\* The vector id: the hash of filename + str(page_num) + str(idx) + user_id,
\* which is one id for all inputs with the same concatenation.
vid(filename, page_num, idx, user_id) ==
    <<filename, str(page_num) \o str(idx), user_id>>

\* The metadata of the leftover batch as it would be without the project.
leftover_meta_without_project(user, filename, page_num, idx) ==
    [company_id |-> user.company_id, team_id |-> user.team_id,
     project_id |-> None, user_id |-> user.user_id,
     doc_name |-> filename, page |-> page_num, chunk_index |-> idx]

\* The metadata upload_pdf attaches to a chunk of the leftover batch.
leftover_meta(user, filename, page_num, idx) ==
    [company_id |-> user.company_id, team_id |-> user.team_id,
     project_id |-> user.project_id, user_id |-> user.user_id,
     doc_name |-> filename, page |-> page_num, chunk_index |-> idx]

\* The metadata upload_pdf attaches to a chunk of a full batch.
full_meta(user, filename, page_num, idx) ==
    [company_id |-> user.company_id, team_id |-> user.team_id,
     project_id |-> user.project_id, user_id |-> user.user_id,
     doc_name |-> filename, page |-> page_num, chunk_index |-> idx]

\* upsert_vectors: the vectors of the items, each taking the place of the
\* vector of the same id in the namespace.
upsert_vectors(vs, namespace, items) ==
    { v \in vs : ~ (v.namespace = namespace /\ v.id \in { i.id : i \in items }) }
        \cup { [namespace |-> namespace, id |-> i.id, meta |-> i.meta] :
                 i \in items }

\* The items of a full batch and of a leftover batch.
full_items(user, filename, page_num, batch) ==
    { [id |-> vid(filename, page_num, batch[i], user.user_id),
       meta |-> full_meta(user, filename, page_num, batch[i])] :
        i \in DOMAIN batch }

leftover_items(user, filename, page_num, batch) ==
    { [id |-> vid(filename, page_num, batch[i], user.user_id),
       meta |-> leftover_meta(user, filename, page_num, batch[i])] :
        i \in DOMAIN batch }

\* The chunk loop of one page from its j-th chunk on. st holds the locals
\* (batch, chunk_idx, total_chunks), the number of embed_batch calls made and
\* the vector index; oks[c] tells whether the c-th embed_batch call of the
\* page returns.
RECURSIVE chunk_loop(_, _, _, _, _, _, _)
chunk_loop(j, n, st, oks, user, filename, page_num) ==
    IF j > n \/ st.total_chunks >= MAX_CHUNKS THEN st
    ELSE LET batch == Append(st.batch, st.chunk_idx)
             chunk_idx == st.chunk_idx + 1
         IN  IF Len(batch) # BATCH
             THEN chunk_loop(j + 1, n,
                             [st EXCEPT !.batch = batch,
                                        !.chunk_idx = chunk_idx],
                             oks, user, filename, page_num)
             ELSE IF ~ oks[st.calls + 1]
             THEN chunk_loop(j + 1, n,
                             [st EXCEPT !.batch = <<>>,
                                        !.chunk_idx = chunk_idx,
                                        !.calls = @ + 1],
                             oks, user, filename, page_num)
             ELSE chunk_loop(j + 1, n,
                             [batch |-> <<>>,
                              chunk_idx |-> chunk_idx,
                              total_chunks |-> st.total_chunks + Len(batch),
                              calls |-> st.calls + 1,
                              index |-> upsert_vectors(st.index,
                                            user.company_id,
                                            full_items(user, filename,
                                                       page_num, batch))],
                             oks, user, filename, page_num)

\* One page of the page loop: the chunk loop, then the leftover batch, whose
\* embed_batch call is outside any try. raised: that call raised.
page_step(n, total_chunks, index, oks, user, filename, page_num) ==
    LET st == chunk_loop(1, n,
                         [batch |-> <<>>, chunk_idx |-> 0,
                          total_chunks |-> total_chunks, calls |-> 0,
                          index |-> index],
                         oks, user, filename, page_num)
    IN  IF st.batch = <<>>
        THEN [raised |-> FALSE, total_chunks |-> st.total_chunks,
              index |-> st.index]
        ELSE IF ~ oks[st.calls + 1]
        THEN [raised |-> TRUE, total_chunks |-> st.total_chunks,
              index |-> st.index]
        ELSE [raised |-> FALSE,
              total_chunks |-> st.total_chunks + Len(st.batch),
              index |-> upsert_vectors(st.index, user.company_id,
                            leftover_items(user, filename, page_num,
                                           st.batch))]

\* check_access as it would be if it trusted the token of every caller as it
\* trusts an admin's, without the membership query.
check_access_token_only(m, user) == user.roles # <<>>

\* check_access: TRUE when it returns, FALSE when it raises the 403.
check_access(m, user) ==
    \/ InList("admin", user.roles)
    \/ SelectByKey(m, user.user_id, user.company_id, user.team_id,
                   user.project_id) # {}

\* upload_pdf from its start through the upload of the file to S3. The
\* uuid of the key is the number of files stored so far.
UploadStart(k, doc, isPdf) ==
    /\ pc[k] = "idle"
    /\ token[k] # NoToken
    /\ Cardinality(objects) < MaxUploads
    /\ LET user == get_current_user(token[k])
           r == Request("upload", None, NoScope, None, None)
           s3_key == <<user.company_id, user.team_id, user.project_id,
                       user.user_id, Cardinality(objects), doc.filename>>
       IN  IF ~ isPdf
           THEN /\ last' = Response(k, r, "NotPdf", {})
                /\ UNCHANGED <<pc, req, objects, up>>
           ELSE IF ~ check_access(memberships, user)
           THEN /\ last' = Response(k, r, "NoAccess", {})
                /\ UNCHANGED <<pc, req, objects, up>>
           ELSE /\ pc' = [pc EXCEPT ![k] = "up_page"]
                /\ req' = [req EXCEPT ![k] = r]
                /\ objects' = objects \cup {s3_key}
                /\ up' = [up EXCEPT ![k] =
                            [filename |-> doc.filename, pages |-> doc.pages,
                             page_num |-> 0, page_count |-> 0,
                             total_chunks |-> 0, s3_key |-> s3_key]]
                /\ last' = last
    /\ UNCHANGED <<memberships, uniqueIndex, users, token, vectors,
                   documents, hist, gen, loop>>

\* The embed_batch outcomes a page of n chunks may meet.
EmbedOutcomes(n) == [1..(n \div BATCH + 1) -> BOOLEAN]

AllEmbedOutcomes == UNION { EmbedOutcomes(n) : n \in PageShapes }

\* upload_pdf: the next page of the page loop.
UploadPage(k, oks) ==
    /\ pc[k] = "up_page"
    /\ up[k].page_num < Len(up[k].pages)
    /\ LET user == get_current_user(token[k])
           page_num == up[k].page_num + 1
           n == up[k].pages[page_num]
       IN  /\ oks \in EmbedOutcomes(n)
           /\ IF n = 0
              THEN /\ up' = [up EXCEPT ![k].page_num = page_num]
                   /\ UNCHANGED <<vectors, pc, req, last>>
              ELSE LET out == page_step(n, up[k].total_chunks, vectors, oks,
                                        user, up[k].filename, page_num)
                   IN  /\ vectors' = out.index
                       /\ IF out.raised
                          THEN /\ last' = Response(k, req[k],
                                                   "EmbeddingError", {})
                               /\ pc' = [pc EXCEPT ![k] = "idle"]
                               /\ req' = [req EXCEPT ![k] = NoReq]
                               /\ up' = [up EXCEPT ![k] = NoUpload]
                          ELSE /\ up' = [up EXCEPT
                                           ![k].page_num = page_num,
                                           ![k].page_count = @ + 1,
                                           ![k].total_chunks =
                                               out.total_chunks]
                               /\ UNCHANGED <<pc, req, last>>
    /\ UNCHANGED <<memberships, uniqueIndex, users, token, objects,
                   documents, hist, gen, loop>>

\* upload_pdf after the page loop: the documents row, its audit row, the
\* response.
UploadFinish(k) ==
    /\ pc[k] = "up_page"
    /\ up[k].page_num = Len(up[k].pages)
    /\ LET user == get_current_user(token[k]) IN
       documents' = documents \cup
           { [company_id |-> user.company_id, team_id |-> user.team_id,
              project_id |-> user.project_id, user_id |-> user.user_id,
              filename |-> up[k].filename, s3_key |-> up[k].s3_key,
              pages |-> up[k].page_count, chunks |-> up[k].total_chunks] }
    /\ last' = Response(k, req[k], "Accepted", {})
    /\ pc' = [pc EXCEPT ![k] = "idle"]
    /\ req' = [req EXCEPT ![k] = NoReq]
    /\ up' = [up EXCEPT ![k] = NoUpload]
    /\ UNCHANGED <<memberships, uniqueIndex, users, token, vectors, objects,
                   hist, gen, loop>>

\* The smaller of two numbers.
Min(a, b) == IF a <= b THEN a ELSE b

\* query_vector: what index.query may return for a namespace: top_k of its
\* vectors, all of them when it has no more.
query_vector(vs, namespace) ==
    LET inNamespace == { v \in vs : v.namespace = namespace } IN
    { matches \in SUBSET inNamespace :
        Cardinality(matches) = Min(top_k, Cardinality(inNamespace)) }

\* search_docs and chat: embed the query, query the caller's namespace,
\* answer from the matches. embedOk: embed_batch returns; queryOk: the index
\* answers (query_vector turns its error into no matches).
Query(k, op, embedOk, queryOk) ==
    /\ pc[k] = "idle"
    /\ token[k] # NoToken
    /\ LET user == get_current_user(token[k])
           r == Request(op, None, NoScope, None, None)
       IN  IF ~ embedOk
           THEN last' = Response(k, r, "EmbeddingError", {})
           ELSE IF ~ queryOk
           THEN last' = Response(k, r, "Accepted", {})
           ELSE \E matches \in query_vector(vectors, user.company_id) :
                   last' = Response(k, r, "Accepted", matches)
    /\ UNCHANGED <<memberships, uniqueIndex, users, token, pc, req, vault,
                   hist>>

search_docs(k, embedOk, queryOk) == Query(k, "search", embedOk, queryOk)

chat(k, embedOk, queryOk) == Query(k, "chat", embedOk, queryOk)

\* The database the vault starts from: one user of the seeded project, as
\* its admin or a member of it, and a second user who is a member of any one
\* project, of the same company or of another.
VaultSeeds ==
    { { Row(UserOrder[1], SeedScope, r), Row(UserOrder[2], s, "member") } :
        r \in {"admin", "member"}, s \in Scopes }

VaultInit ==
    /\ \E S \in VaultSeeds : memberships = TableOf(S)
    /\ users = SeedUsers
    /\ uniqueIndex = TRUE
    /\ token = [k \in Clients |-> NoToken]
    /\ pc = [k \in Clients |-> "idle"]
    /\ req = [k \in Clients |-> NoReq]
    /\ last = NoResp
    /\ removedKeys = {}
    /\ acceptedAdds = {}
    /\ VaultEmpty
    /\ sessions = 0

\* Logins, uploads and queries of the clients interleave freely.
VaultNext ==
    \/ \E k \in Servable, u \in UserIds, s \in Scopes, passwordOk \in BOOLEAN :
           Login(k, u, s, passwordOk) /\ UNCHANGED <<hist, vault, sessions>>
    \/ \E k \in Servable, doc \in Documents, isPdf \in BOOLEAN :
           UploadStart(k, doc, isPdf) /\ UNCHANGED sessions
    \/ \E k \in Servable, oks \in AllEmbedOutcomes :
           UploadPage(k, oks) /\ UNCHANGED sessions
    \/ \E k \in Servable : UploadFinish(k) /\ UNCHANGED sessions
    \/ \E k \in Servable, embedOk \in BOOLEAN, queryOk \in BOOLEAN :
           search_docs(k, embedOk, queryOk) /\ UNCHANGED sessions
    \/ \E k \in Servable, embedOk \in BOOLEAN, queryOk \in BOOLEAN :
           chat(k, embedOk, queryOk) /\ UNCHANGED sessions
    \/ SendResponse /\ UNCHANGED <<hist, vault, sessions>>

VaultSpec == VaultInit /\ [][VaultNext]_vars

----------------------------------------------------------------------------
(***************************************************************************)
(* The history of the memberships: which keys have had a membership        *)
(* deleted, and which accepted add_member requests still stand.            *)
(***************************************************************************)

\* The key a request names.
ReqKey(r) == <<r.user_id, r.company_id, r.team_id, r.project_id>>

\* The arguments of an add_member request, without what the handler keeps.
AddArgs(r) == [r EXCEPT !.local = None]

\* The step is an INSERT that add_member answers with ok.
AcceptedInsert ==
    /\ \E k \in Clients : InsertStep(k)
    /\ last'.result = "Accepted"

\* The step is a DELETE of remove_member that deleted a membership.
Removal ==
    /\ \E k \in Clients : DeleteStep(k)
    /\ last'.rows # {}

\* The history a step leaves.
Track ==
    /\ removedKeys' =
           IF Removal THEN removedKeys \cup {ReqKey(last'.req)}
           ELSE removedKeys
    /\ acceptedAdds' =
           IF AcceptedInsert
           THEN acceptedAdds \cup
                   { [actor |-> token[last'.client],
                      args |-> AddArgs(last'.req)] }
           ELSE IF Removal
           THEN { e \in acceptedAdds : ReqKey(e.args) # ReqKey(last'.req) }
           ELSE acceptedAdds

\* Requests interleave freely, and every step records its history.
HistNext ==
    \/ \E k \in Servable, u \in UserIds : Signup(k, u) /\ Track /\ UNCHANGED <<vault, sessions>>
    \/ \E k \in Servable, u \in UserIds, s \in Scopes, passwordOk \in BOOLEAN :
           Login(k, u, s, passwordOk) /\ Track /\ UNCHANGED <<vault, sessions>>
    \/ \E k \in Servable, u \in UserIds, s \in Scopes, role \in RoleInputs :
           AddMemberCheck(k, u, s, role) /\ Track /\ UNCHANGED <<vault, sessions>>
    \/ \E k \in Servable : AddMemberInsert(k) /\ Track /\ UNCHANGED <<vault, sessions>>
    \/ \E k \in Servable, u \in UserIds, s \in Scopes :
           RemoveMemberCheck(k, u, s) /\ Track /\ UNCHANGED <<vault, sessions>>
    \/ \E k \in Servable : RemoveMemberDelete(k) /\ Track /\ UNCHANGED <<vault, sessions>>
    \/ SendResponse /\ Track /\ UNCHANGED <<vault, sessions>>

HistSpec == Init /\ [][HistNext]_vars

----------------------------------------------------------------------------
(***************************************************************************)
(* C11-C20                                                                 *)
(***************************************************************************)

\* The step answers an add_member or remove_member request.
AnswersManage == last' # last /\ last'.req.op \in {"add", "remove"}

\* C11: every rejected add-member or remove-member request, whatever the
\* reason of the rejection, leaves the memberships table as it was: the step
\* that answers with anything but Accepted changes no row, and the table
\* changes only in the INSERT or DELETE step of a request that passed all its
\* checks and is answered Accepted.
C11_RejectedLeavesStore ==
    [][ /\ (AnswersManage /\ last'.result # "Accepted")
            => memberships' = memberships
        /\ memberships' # memberships
            => /\ AnswersManage
               /\ last'.result = "Accepted"
               /\ InsertStep(last'.client) \/ DeleteStep(last'.client) ]_vars

\* A request was rejected by the last of add_member's checks while the table
\* holds rows, and a rejected remove_member is possible too.
C11_Witness ==
    /\ LastIsAdd
    /\ last.result = "DuplicateMembership"
    /\ RowsOf(memberships) # {}

\* The actor and the arguments of an add_member request of client k.
AddCall(k, r) == [actor |-> token[k], args |-> AddArgs(r)]

\* C12: an add-member request that repeats, with the same actor, target user,
\* target scope and role, one that was accepted before, with no removal of
\* that key in between, does not pass the checks again: it is answered
\* DuplicateMembership. The two are never both Accepted.
C12_RepeatedAdd ==
    [][ /\ \A k \in Clients :
              (pc[k] = "idle" /\ pc'[k] = "add_insert")
                  => AddCall(k, req'[k]) \notin acceptedAdds
        /\ ( /\ last' # last
             /\ last'.req.op = "add"
             /\ pc' = pc
             /\ AddCall(last'.client, last'.req) \in acceptedAdds )
               => last'.result = "DuplicateMembership" ]_vars

\* The second of two identical add-member requests has been answered
\* DuplicateMembership while the first one, accepted, still stands.
C12_Witness ==
    /\ LastIsAdd
    /\ last.result = "DuplicateMembership"
    /\ AddCall(last.client, last.req) \in acceptedAdds

\* C13: an add-member request whose target user_id is not in the users table
\* is rejected (with UnknownUser, when no earlier check rejects it), so every
\* membership that add-member creates names a user of the directory. The
\* users table only grows, so a user absent when the request is answered was
\* absent when it was decided.
C13_UnknownUser ==
    (LastIsAdd /\ last.req.user_id \notin users)
        => /\ last.result # "Accepted"
           /\ last.rows = {}

\* Every (user, scope) key.
Keys == { <<u, s[1], s[2], s[3]>> : u \in UserIds, s \in Scopes }

\* The key has a membership in table m.
Active(m, key) == SelectByKey(m, key[1], key[2], key[3], key[4]) # {}

\* C14 as claimed: Removed is terminal: a key whose membership was removed
\* never has a membership again.
C14_RemovedTerminal ==
    \A key \in removedKeys : ~ Active(memberships, key)

\* C14 as amended: a key gets a membership only by the INSERT of an accepted
\* add-member for that key, and loses it only by the DELETE of an accepted
\* remove-member for that key, which makes the key a removed one; that holds
\* for removed keys as for new ones, so a removed key may become Active again.
C14_Lifecycle ==
    [][ memberships' # memberships => \A key \in Keys :
          /\ (~ Active(memberships, key) /\ Active(memberships', key))
                => AcceptedInsert /\ ReqKey(last'.req) = key
          /\ (Active(memberships, key) /\ ~ Active(memberships', key))
                => /\ Removal
                   /\ ReqKey(last'.req) = key
                   /\ key \in removedKeys' ]_vars

\* An accepted add-member has just made a membership for a key whose earlier
\* membership had been removed.
C14_Witness ==
    /\ LastIsAdd
    /\ last.result = "Accepted"
    /\ ReqKey(last.req) \in removedKeys
    /\ Active(memberships, ReqKey(last.req))

\* The name of the first check that fails, in a list of checks given as
\* <<failed, name>> pairs in the order they are made; "pass" when none fails.
FirstFailing(checks) ==
    LET failing == { i \in DOMAIN checks : checks[i][1] } IN
    IF failing = {} THEN "pass"
    ELSE checks[CHOOSE i \in failing : \A j \in failing : i <= j][2]

\* The checks of add-member, each taken alone, on the request just answered.
\* A request rejected by a check is answered in the step that reads the
\* table, so the table at the answer is the table the checks saw.
AddScopeFails == ScopeOf(LastActor) # LastTargetScope
AddRoleNotAssignable3 == last.req.role \notin {"admin", "manager", "member"}
AddRoleInvalid == last.req.role \notin Roles
AddHierarchyFails ==
    ~ \E r \in DOMAIN ChildOf :
        InList(r, LastActor.roles) /\ last.req.role = ChildOf[r]
AddKeyPresent == Active(memberships, ReqKey(last.req))

\* The answer of an add-member agrees with a list of checks: a request
\* answered by the INSERT step passed them all (its key is in the table by
\* then), any other is rejected by the first of them that fails.
AddAnswerFollows(checks) ==
    IF last.result \in {"Accepted", "StoreError"}
    THEN FirstFailing(checks) \in {"pass", "DuplicateMembership"}
    ELSE last.result = FirstFailing(checks)

\* C15 as claimed: add-member reports the first failing check in the order
\* role not in {admin, manager, member}, scope violation, hierarchy
\* violation, duplicate membership.
C15_RoleScopeHierarchyDuplicate ==
    LastIsAdd =>
        AddAnswerFollows(<< <<AddRoleNotAssignable3, "InvalidRole">>,
                            <<AddScopeFails, "ScopeViolation">>,
                            <<AddHierarchyFails, "HierarchyViolation">>,
                            <<AddKeyPresent, "DuplicateMembership">> >>)

\* C15 as amended: add-member reports the first failing check in the order
\* scope violation, role not one of the four valid roles, hierarchy
\* violation, duplicate membership.
C15_ScopeRoleHierarchyDuplicate ==
    LastIsAdd =>
        AddAnswerFollows(<< <<AddScopeFails, "ScopeViolation">>,
                            <<AddRoleInvalid, "InvalidRole">>,
                            <<AddHierarchyFails, "HierarchyViolation">>,
                            <<AddKeyPresent, "DuplicateMembership">> >>)

\* An admin's request with an invalid role aimed at a scope the admin does
\* not cover has been rejected, and for the scope.
C15_Witness ==
    /\ LastIsAdd
    /\ InList("admin", LastActor.roles)
    /\ AddRoleInvalid
    /\ AddScopeFails
    /\ last.result = "ScopeViolation"

\* The checks of remove-member, each taken alone, on the request just
\* answered; tr is the role of the row fetched for the target key, None when
\* there is no row.
RmScopeFails == ScopeOf(LastActor) # LastTargetScope
RmActorHasNoChild ==
    ~ \E r \in DOMAIN ChildOf : InList(r, LastActor.roles)
RmNotChild(tr) ==
    ~ \E r \in DOMAIN ChildOf : InList(r, LastActor.roles) /\ tr = ChildOf[r]

\* The roles a fetch for the target key may return.
RmTargetRoles ==
    IF Active(memberships, ReqKey(last.req))
    THEN { row.role : row \in SelectByKey(memberships, last.req.user_id,
                                          last.req.company_id,
                                          last.req.team_id,
                                          last.req.project_id) }
    ELSE {None}

\* The order of the claim: target missing, target an owner, scope, hierarchy.
RmTargetFirst(tr) ==
    << <<tr = None, "MembershipNotFound">>,
       <<tr = "owner", "OwnerImmutable">>,
       <<RmScopeFails, "ScopeViolation">>,
       <<RmNotChild(tr), "HierarchyViolation">> >>

\* The order of remove_member: scope, an actor with no role to remove from,
\* target missing, target an owner, target not the actor's child.
RmActorFirst(tr) ==
    << <<RmScopeFails, "ScopeViolation">>,
       <<RmActorHasNoChild, "HierarchyViolation">>,
       <<tr = None, "MembershipNotFound">>,
       <<tr = "owner", "OwnerImmutable">>,
       <<RmNotChild(tr), "HierarchyViolation">> >>

\* C16 as claimed: remove-member reports the first failing check in the
\* order MembershipNotFound, OwnerImmutable, ScopeViolation,
\* HierarchyViolation.
C16_NotFoundOwnerScopeHierarchy ==
    (LastIsRemove /\ last.result # "Accepted")
        => \E tr \in RmTargetRoles :
              last.result = FirstFailing(RmTargetFirst(tr))

\* C16 as amended: remove-member reports the first failing check in the
\* order ScopeViolation, HierarchyViolation for an actor that is neither
\* owner, admin nor manager, MembershipNotFound, OwnerImmutable,
\* HierarchyViolation for a target that is not the actor's immediate child;
\* an accepted request passed the two checks made on the actor alone.
C16_ScopeActorNotFoundOwnerHierarchy ==
    LastIsRemove =>
        IF last.result = "Accepted"
        THEN ~ RmScopeFails /\ ~ RmActorHasNoChild
        ELSE \E tr \in RmTargetRoles :
                last.result = FirstFailing(RmActorFirst(tr))

\* A manager's remove-member aimed at the owner's membership of a project
\* that is not the manager's has been rejected, and for the scope.
C16_Witness ==
    /\ LastIsRemove
    /\ InList("manager", LastActor.roles)
    /\ RmTargetRoles = {"owner"}
    /\ RmScopeFails
    /\ last.result = "ScopeViolation"

\* The response just returned answers a search or a chat query.
LastIsQuery == last.req.op \in {"search", "chat"}

\* C17: every search and chat query is restricted to the principal's exact
\* company_id, team_id and project_id: each chunk it returns was found in the
\* namespace of the principal's company and carries the principal's
\* company_id, team_id and project_id in its metadata.
C17_QueryExactScope ==
    LastIsQuery =>
        \A v \in last.rows :
            /\ v.namespace = LastActor.company_id
            /\ v.meta.company_id = LastActor.company_id
            /\ v.meta.team_id = LastActor.team_id
            /\ v.meta.project_id = LastActor.project_id

\* C18: every vector an upload writes goes into the namespace of the
\* uploader's company_id and carries the uploader's company_id, team_id and
\* project_id in its metadata, whether a full batch or the leftover batch
\* wrote it; and nothing but a step of an upload's page loop writes vectors.
C18_UploadScope ==
    [][ vectors' # vectors =>
          \E k \in Clients :
            /\ pc[k] = "up_page"
            /\ up'[k] # up[k]
            /\ LET user == get_current_user(token[k]) IN
               \A v \in vectors' \ vectors :
                  /\ v.namespace = user.company_id
                  /\ v.meta.company_id = user.company_id
                  /\ v.meta.team_id = user.team_id
                  /\ v.meta.project_id = user.project_id ]_vars

\* The index holds a vector written by a full batch (chunks 0 to 3 of a
\* page) and one written by the leftover batch after it (chunk 4).
C18_Witness ==
    \E v, w \in vectors :
        /\ v.meta.chunk_index = 1
        /\ w.meta.chunk_index = BATCH
        /\ v.meta.project_id # None

\* C19: however remove-member and add-member requests on one key interleave,
\* every row that an accepted remove-member deletes has, when it is deleted,
\* the role that is the immediate child of the actor's role.
C19_DeletesOnlyChild ==
    (LastIsRemove /\ last.result = "Accepted")
        => \A row \in last.rows :
              \E r \in DOMAIN ChildOf :
                  InList(r, LastActor.roles) /\ row.role = ChildOf[r]

\* C20: a remove-member request returns Accepted only if its own DELETE
\* removed a membership; so of two concurrent requests for one existing
\* membership exactly one is Accepted, and the other, which finds nothing
\* left to delete, is not.
C20_AcceptedRemoved ==
    (LastIsRemove /\ last.result = "Accepted") => last.rows # {}

----------------------------------------------------------------------------
(***************************************************************************)
(* C21-C28                                                                 *)
(***************************************************************************)

\* The copies of row x in table m.
Copies(m, x) == IF x \in DOMAIN m THEN m[x] ELSE 0

\* The rows of either table of a step.
RowsOfStep == RowsOf(memberships) \cup RowsOf(memberships')

\* C21: the INSERT step of an accepted add-member is its one mutation: it
\* adds one copy of the row with the target key and the assigned role, which
\* is the requested one, and changes no other row. The DELETE step of an
\* accepted remove-member is its one mutation: it leaves no row with the
\* target key and changes no row of another key.
C21_OneMutation ==
    [][ \A k \in Clients :
          /\ (InsertStep(k) /\ last'.result = "Accepted")
                => LET r == req[k]
                       row == Row(r.user_id,
                                  <<r.company_id, r.team_id, r.project_id>>,
                                  r.role)
                   IN  /\ r.local = r.role
                       /\ \A x \in RowsOfStep \cup {row} :
                             Copies(memberships', x) =
                                 Copies(memberships, x)
                                     + (IF x = row THEN 1 ELSE 0)
          /\ DeleteStep(k)
                => /\ last'.result = "Accepted"
                   /\ \A x \in RowsOfStep :
                         Copies(memberships', x) =
                             IF Key(x) = ReqKey(req[k]) THEN 0
                             ELSE Copies(memberships, x) ]_vars

\* An accepted remove-member has deleted the membership of its key while
\* memberships of other keys are in the table.
C21_Witness ==
    /\ LastIsRemove
    /\ last.result = "Accepted"
    /\ last.rows # {}
    /\ RowsOf(memberships) # {}

\* The step answers a login request.
AnswersLogin == last' # last /\ last'.req.op = "login"

\* C22: login issues a token only when the users table has the user and the
\* memberships table has, at login time, a row for the user at exactly the
\* requested company_id, team_id and project_id; the token carries the user,
\* that scope and a roles list of exactly the role of such a row. A login
\* without such a row is rejected, a rejected login issues no token, and
\* nothing but an accepted login changes a token.
C22_LoginToken ==
    [][ /\ AnswersLogin =>
            LET r == last'.req
                k == last'.client
                membership == SelectByKey(memberships, r.user_id,
                                          r.company_id, r.team_id,
                                          r.project_id)
            IN  /\ last'.result = "Accepted"
                    => /\ r.user_id \in users
                       /\ \E row \in membership :
                             token'[k] =
                                 [user_id |-> r.user_id,
                                  company_id |-> r.company_id,
                                  team_id |-> r.team_id,
                                  project_id |-> r.project_id,
                                  roles |-> <<row.role>>]
                       /\ \A c \in Clients \ {k} : token'[c] = token[c]
                /\ membership = {} => last'.result # "Accepted"
                /\ last'.result # "Accepted" => token' = token
        /\ token' # token => AnswersLogin ]_vars

\* A login has been rejected for want of a membership at the requested
\* project, for a user who has an account and a membership elsewhere.
C22_Witness ==
    /\ last.req.op = "login"
    /\ last.result = "NoAccess"
    /\ last.req.user_id \in users
    /\ \E row \in RowsOf(memberships) : row.user_id = last.req.user_id

\* The rows of table m that make the holder of a token what the token says:
\* the user's membership at the token's scope with a role of the token.
HeldBy(m, payload) ==
    { row \in SelectByKey(m, payload.user_id, payload.company_id,
                          payload.team_id, payload.project_id) :
        InList(row.role, payload.roles) }

\* C23: revocation is effective: an add-member or remove-member request is
\* accepted only if the memberships table holds, when the request is
\* answered, the actor's membership with the role the request was decided
\* under; so no request made with a token from before the removal of the
\* actor's membership is accepted.
C23_RevocationEffective ==
    (LastIsManage /\ last.result = "Accepted")
        => HeldBy(memberships, token[last.client]) # {}

----------------------------------------------------------------------------
(***************************************************************************)
(* Uploads while memberships are removed: the handlers of login.py, the    *)
(* remove_member handler of access.py and the upload handler of main.py,   *)
(* on one database.                                                        *)
(***************************************************************************)
RevokeInit ==
    /\ Init
    /\ uniqueIndex

RevokeNext ==
    \/ \E k \in Servable, u \in UserIds, s \in Scopes, passwordOk \in BOOLEAN :
           Login(k, u, s, passwordOk) /\ UNCHANGED <<hist, vault, sessions>>
    \/ \E k \in Servable, u \in UserIds, s \in Scopes :
           RemoveMemberCheck(k, u, s) /\ UNCHANGED <<hist, vault, sessions>>
    \/ \E k \in Servable : RemoveMemberDelete(k) /\ UNCHANGED <<hist, vault, sessions>>
    \/ \E k \in Servable, doc \in Documents, isPdf \in BOOLEAN :
           UploadStart(k, doc, isPdf) /\ UNCHANGED sessions
    \/ \E k \in Servable, oks \in AllEmbedOutcomes :
           UploadPage(k, oks) /\ UNCHANGED sessions
    \/ \E k \in Servable : UploadFinish(k) /\ UNCHANGED sessions
    \/ SendResponse /\ UNCHANGED <<hist, vault, sessions>>

RevokeSpec == RevokeInit /\ [][RevokeNext]_vars

\* The step takes the upload of client k past the access check, and the step
\* answers the upload of client k with the 403 of the access check.
UploadProceeds(k) == pc[k] = "idle" /\ pc'[k] = "up_page"

UploadDenied(k) ==
    /\ last' # last
    /\ last'.client = k
    /\ last'.req.op = "upload"
    /\ last'.result = "NoAccess"

\* The principal of client k has the admin role, or the memberships table
\* holds a row for the principal's user_id, company_id, team_id, project_id.
MayUpload(k) ==
    LET user == get_current_user(token[k]) IN
    \/ \E i \in DOMAIN user.roles : user.roles[i] = "admin"
    \/ \E row \in RowsOf(memberships) :
          /\ row.user_id = user.user_id
          /\ row.company_id = user.company_id
          /\ row.team_id = user.team_id
          /\ row.project_id = user.project_id

\* C24: an upload that reaches the access check (the content type is checked
\* before it) proceeds past it if and only if the principal's roles contain
\* 'admin' or a membership row exists at that moment for the principal's
\* user_id, company_id, team_id and project_id; otherwise the upload is
\* answered with the 403 and the step stores no file, writes no vector and
\* no documents row. So a principal without the admin role whose membership
\* has been removed is rejected on every later upload with the old token.
C24_UploadAccess ==
    [][ \A k \in Clients :
          /\ UploadProceeds(k) => MayUpload(k)
          /\ UploadDenied(k) =>
               /\ ~ MayUpload(k)
               /\ UNCHANGED <<vectors, objects, documents, up>> ]_vars

\* A user who logged in as manager or member, uploaded a file, and was then
\* removed, has an upload with the old token answered with the 403.
C24_Witness ==
    /\ last.req.op = "upload"
    /\ last.result = "NoAccess"
    /\ token[last.client].roles \in {<<"manager">>, <<"member">>}
    /\ SelectByKey(memberships, token[last.client].user_id,
                   token[last.client].company_id, token[last.client].team_id,
                   token[last.client].project_id) = {}
    /\ \E o \in objects : o[4] = token[last.client].user_id

----------------------------------------------------------------------------
(***************************************************************************)
(* pdf_utils.py chunk_text, and the page loop of upload_pdf followed chunk *)
(* by chunk.                                                               *)
(*                                                                         *)
(* The page-level model above takes a page for the chunks chunk_text has   *)
(* yielded when it returns. Here the generator runs as the code runs it:   *)
(* it is resumed once for every chunk, and the loop that consumes it goes  *)
(* on for as long as the generator yields. Of the locals of the loop the   *)
(* counters are kept (the vectors are those of the page-level model);      *)
(* of a text, its length and where its whitespace lies.                    *)
(***************************************************************************)
MaxLen == 4
MaxChunkSize == 3
MaxLoopPages == 15

CHUNK_SIZE == 800
CHUNK_OVERLAP == 200
MIN_PAGE_TEXT == 20

\* len(text), and len(text.strip()).
len(text) == text.letters + text.spaces

strip_len(text) == text.letters

\* text[start:end], for 0 <= start <= end <= len(text).
Slice(text, start, end) ==
    LET upto == Min(end, text.letters)
        letters == IF upto > start THEN upto - start ELSE 0
    IN  Text(letters, (end - start) - letters)

\* chunk_text(text, chunk_size, overlap): the generator object, not yet run.
chunk_text(text, chunk_size, overlap) ==
    [text |-> text, chunk_size |-> chunk_size, overlap |-> overlap,
     start |-> 0, end |-> 0, at |-> "created", out |-> Text(0, 0)]

\* next(g): the generator runs from where it stands (its first line, or the
\* statement after its yield) to its next yield or to its return.
chunk_text_next(g) ==
    LET length == len(g.text)
        start == IF g.at = "created" THEN 0
                 ELSE IF g.end < g.overlap THEN 0
                 ELSE g.end - g.overlap
    IN  IF start < length
        THEN LET end == Min(length, start + g.chunk_size) IN
             [g EXCEPT !.start = start, !.end = end, !.at = "suspended",
                       !.out = Slice(g.text, start, end)]
        ELSE [g EXCEPT !.start = start, !.at = "returned"]

\* Nothing but the generator and the loop that consumes it is at work.
ServerIdle ==
    /\ memberships = TableOf({})
    /\ users = {}
    /\ uniqueIndex = TRUE
    /\ token = [k \in Clients |-> NoToken]
    /\ pc = [k \in Clients |-> "idle"]
    /\ req = [k \in Clients |-> NoReq]
    /\ last = NoResp
    /\ removedKeys = {}
    /\ acceptedAdds = {}
    /\ vectors = {}
    /\ objects = {}
    /\ documents = {}
    /\ up = [k \in Clients |-> NoUpload]
    /\ sessions = 0

server == <<memberships, uniqueIndex, users, token, pc, req, last,
            removedKeys, acceptedAdds, vectors, objects, documents, up,
            sessions>>

\* A for loop over chunk_text(text, chunk_size, overlap), for any text and
\* any chunk_size and overlap with 0 <= overlap < chunk_size.
ChunkInit ==
    /\ ServerIdle
    /\ \E letters \in 0..MaxLen, spaces \in 0..MaxLen,
          chunk_size \in 1..MaxChunkSize, overlap \in 0..MaxChunkSize :
          /\ letters + spaces <= MaxLen
          /\ overlap < chunk_size
          /\ gen = chunk_text(Text(letters, spaces), chunk_size, overlap)
    /\ loop = [NoLoop EXCEPT !.at = "next"]

\* The for loop asks the generator for its next chunk.
ForNext ==
    /\ loop.at = "next"
    /\ gen.at \in {"created", "suspended"}
    /\ gen' = chunk_text_next(gen)
    /\ loop' = [loop EXCEPT !.at = IF gen'.at = "returned" THEN "end"
                                   ELSE "body"]
    /\ UNCHANGED server

\* The body of the for loop has run for the chunk.
ForBody ==
    /\ loop.at = "body"
    /\ loop' = [loop EXCEPT !.at = "next"]
    /\ UNCHANGED <<server, gen>>

ChunkNext == ForNext \/ ForBody

ChunkSpec == ChunkInit /\ [][ChunkNext]_vars

\* The interpreter keeps running the loop for as long as it has a next step.
ChunkFairSpec == ChunkSpec /\ WF_vars(ChunkNext)

\* C25: chunk_text terminates for every finite text when
\* 0 <= overlap < chunk_size: a loop over its chunks, kept running, comes to
\* the generator's return after finitely many chunks.
C25_Terminates == <>(gen.at = "returned")

----------------------------------------------------------------------------
(***************************************************************************)
(* main.py upload_pdf: the page loop, chunk by chunk.                      *)
(***************************************************************************)

\* settings.CHUNK_OVERLAP: its default, and 0 as the environment may set it.
Overlaps == {CHUNK_OVERLAP, 0}

\* The page texts iter_pages_text may yield: none (a page that timed out), a
\* few characters, a page ending in whitespace, a full page.
PageTexts == {Text(0, 0), Text(10, 0), Text(1000, 300), Text(5600, 0)}

\* upload_pdf has stored the file and enters the page loop.
PageLoopInit ==
    /\ ServerIdle
    /\ gen = NoGen
    /\ \E overlap \in Overlaps :
          loop = [at |-> "page", overlap |-> overlap, page_num |-> 0,
                  page_count |-> 0, batch |-> 0, total_chunks |-> 0]

\* The page loop takes the next page: skips it when it has too little text,
\* otherwise starts the chunk loop over it.
LoopPage(page_text) ==
    /\ loop.at = "page"
    /\ loop.page_num < MaxLoopPages
    /\ IF strip_len(page_text) < MIN_PAGE_TEXT
       THEN /\ loop' = [loop EXCEPT !.page_num = @ + 1]
            /\ gen' = gen
       ELSE /\ loop' = [loop EXCEPT !.page_num = @ + 1,
                                    !.page_count = @ + 1,
                                    !.batch = 0,
                                    !.at = "next"]
            /\ gen' = chunk_text(page_text, CHUNK_SIZE, loop.overlap)
    /\ UNCHANGED server

\* The chunk loop asks the generator for the next chunk; when the generator
\* returns, the loop is over and the leftover batch is next.
LoopNextChunk ==
    /\ loop.at = "next"
    /\ gen' = chunk_text_next(gen)
    /\ loop' = [loop EXCEPT !.at = IF gen'.at = "returned" THEN "leftover"
                                   ELSE "body"]
    /\ UNCHANGED server

\* The body of the chunk loop for the chunk yielded. ok: embed_batch, when
\* the body calls it, returns the embeddings; otherwise it raises.
LoopChunk(ok) ==
    /\ loop.at = "body"
    /\ IF strip_len(gen.out) = 0
       THEN loop' = [loop EXCEPT !.at = "next"]
       ELSE IF loop.total_chunks >= MAX_CHUNKS
       THEN loop' = [loop EXCEPT !.at = "leftover"]
       ELSE IF loop.batch + 1 # BATCH
       THEN loop' = [loop EXCEPT !.batch = @ + 1, !.at = "next"]
       ELSE IF ~ ok
       THEN loop' = [loop EXCEPT !.batch = 0, !.at = "next"]
       ELSE loop' = [loop EXCEPT !.total_chunks = @ + (loop.batch + 1),
                                 !.batch = 0, !.at = "next"]
    /\ gen' = gen
    /\ UNCHANGED server

\* After the chunk loop: the leftover batch, whose embed_batch call is
\* outside any try, so that its exception ends upload_pdf.
LoopLeftover(ok) ==
    /\ loop.at = "leftover"
    /\ IF loop.batch = 0
       THEN loop' = [loop EXCEPT !.at = "page"]
       ELSE IF ~ ok
       THEN loop' = [loop EXCEPT !.at = "raised"]
       ELSE loop' = [loop EXCEPT !.total_chunks = @ + loop.batch,
                                 !.at = "page"]
    /\ gen' = NoGen
    /\ UNCHANGED server

\* iter_pages_text has no more pages: the documents row is written.
LoopEnd ==
    /\ loop.at = "page"
    /\ loop' = [loop EXCEPT !.at = "done"]
    /\ gen' = gen
    /\ UNCHANGED server

PageLoopNext ==
    \/ \E page_text \in PageTexts : LoopPage(page_text)
    \/ LoopNextChunk
    \/ \E ok \in BOOLEAN : LoopChunk(ok)
    \/ \E ok \in BOOLEAN : LoopLeftover(ok)
    \/ LoopEnd

PageLoopSpec == PageLoopInit /\ [][PageLoopNext]_vars

\* The interpreter keeps running upload_pdf for as long as it has a next
\* step: every call made by the loop returns or raises.
PageLoopFairSpec == PageLoopSpec /\ WF_vars(PageLoopNext)

\* C26: the chunk counter of an upload never exceeds MAX_CHUNKS, over any
\* number of pages and any outcome of the embedding calls, full batches and
\* leftover batches counted.
C26_ChunkCap == loop.total_chunks <= MAX_CHUNKS

\* C27: upload processing terminates: the page loop of upload_pdf, kept
\* running, comes to its end (where the documents row is written) or, at
\* the least, to the exception that ends upload_pdf.
C27_UploadTerminates == <>(loop.at \in {"done", "raised"})

----------------------------------------------------------------------------
(***************************************************************************)
(* The database sessions of the handlers: where each handler calls         *)
(* SessionLocal() and where it calls session.close().                      *)
(***************************************************************************)
MaxSessions == 2

\* What a step of a handler does to the number of open sessions.
\* signup and login open a session and close it before every raise and
\* before the return (login.py 48-78, 91-152).
SignupSessions == sessions' = sessions

LoginSessions == sessions' = sessions

\* add_member and remove_member raise the scope violation before they open
\* the session (access.py 40-42, 173-175) and close it before every later
\* raise; the session stays open from the checks to the write, and is closed
\* after the commit (access.py 146-147, 261-262).
AddMemberCheckSessions(k) ==
    sessions' = IF pc'[k] = "add_insert" THEN sessions + 1 ELSE sessions

AddMemberInsertSessions ==
    sessions' = IF last'.result = "StoreError" THEN sessions
                ELSE sessions - 1

RemoveMemberCheckSessions(k) ==
    sessions' = IF pc'[k] = "rm_delete" THEN sessions + 1 ELSE sessions

RemoveMemberDeleteSessions == sessions' = sessions - 1

\* upload_pdf raises on the content type before it opens the session
\* (main.py 111-115); check_access raises its 403 with the session open and
\* nothing closes it (main.py 57, 118); the exception of the leftover
\* batch's embed_batch leaves it open as well; the only close is the one
\* before the return (main.py 236).
UploadStartSessions ==
    sessions' = IF last' # last /\ last'.result = "NotPdf" THEN sessions
                ELSE sessions + 1

UploadPageSessions == sessions' = sessions

UploadFinishSessions == sessions' = sessions - 1

\* Requests run one at a time, and every step opens and closes the sessions
\* its handler opens and closes. No upload starts with MaxSessions open, or
\* after one that has stored its file.
SessionNext ==
    \/ \E k \in SeqStartable, u \in UserIds :
           Signup(k, u) /\ SignupSessions /\ UNCHANGED <<hist, vault>>
    \/ \E k \in SeqStartable, u \in UserIds, s \in Scopes,
          passwordOk \in BOOLEAN :
           Login(k, u, s, passwordOk) /\ LoginSessions
               /\ UNCHANGED <<hist, vault>>
    \/ \E k \in SeqStartable, u \in UserIds, s \in Scopes,
          role \in RoleInputs :
           AddMemberCheck(k, u, s, role) /\ AddMemberCheckSessions(k)
               /\ UNCHANGED <<hist, vault>>
    \/ \E k \in Servable :
           AddMemberInsert(k) /\ AddMemberInsertSessions
               /\ UNCHANGED <<hist, vault>>
    \/ \E k \in SeqStartable, u \in UserIds, s \in Scopes :
           RemoveMemberCheck(k, u, s) /\ RemoveMemberCheckSessions(k)
               /\ UNCHANGED <<hist, vault>>
    \/ \E k \in Servable :
           RemoveMemberDelete(k) /\ RemoveMemberDeleteSessions
               /\ UNCHANGED <<hist, vault>>
    \/ \E k \in SeqStartable, doc \in Documents, isPdf \in BOOLEAN :
           /\ sessions < MaxSessions
           /\ objects = {}
           /\ UploadStart(k, doc, isPdf) /\ UploadStartSessions
    \/ \E k \in Servable, oks \in AllEmbedOutcomes :
           UploadPage(k, oks) /\ UploadPageSessions
    \/ \E k \in Servable : UploadFinish(k) /\ UploadFinishSessions
    \/ SendResponse /\ UNCHANGED <<hist, vault, sessions>>

\* The database of the seeded project with an admin and a manager.
SessionInit ==
    /\ RevokeInit
    /\ RowsOf(memberships) = { Row(UserOrder[1], SeedScope, "admin"),
                               Row(UserOrder[2], SeedScope, "manager") }

SessionSpec == SessionInit /\ [][SessionNext]_vars

\* C28: every handler that opens a database session closes it on every path
\* that returns a response or a rejection: with requests run one at a time,
\* the sessions open are those of the requests in flight, so that after a
\* request completes the number of open sessions is what it was before.
C28_SessionsClosed ==
    sessions = Cardinality({ k \in Clients : InFlight(k) })

============================================================================
